---- MODULE Spec2Model ----
(***************************************************************************)
(* Iconize & Pixelate API (src/api/main.py).                               *)
(*                                                                         *)
(* An image is a record [w, h, px]: px is the row-major pixel sequence,    *)
(* pixel (x, y) at index y*w + x + 1.  An L-mode image holds integers      *)
(* 0..255, an RGB image holds triples, an RGBA image holds quadruples.     *)
(*                                                                         *)
(* Three specifications share the variables:                               *)
(*   SpecMask      the mask helpers called one at a time on any input;     *)
(*   SpecIconize   one POST /iconize request, stage by stage;              *)
(*   SpecPixelate  one POST /pixelate request and a re-submission of it.   *)
(*                                                                         *)
(* Pillow and numpy are libraries outside the repository.  Their           *)
(* primitives are written out as the libraries compute them, except        *)
(*   - GaussianBlur, whose result is any image between the minimum and     *)
(*     the maximum of its input (a blur is a convex combination);          *)
(*   - default_rng(42).choice, whose draw is an unknown injective index    *)
(*     sequence that is the same for the same (population, size);          *)
(*   - convert("P", ADAPTIVE), kept as a tag on the output image.          *)
(***************************************************************************)
EXTENDS Integers, Sequences, FiniteSets, TLC

(* ------------------------------ bounds -------------------------------- *)

\* largest pixel count (w*h) of an image handed to the iconize pipeline
MaxArea == 6
\* largest pixel count (w*h) of an image handed to pixelate
MaxPixels == 3
\* largest iteration count handed to thicken when called on its own
MaxIter == 2
\* largest width handed to stroke_from_mask when called on its own
MaxWidth == 4

(* --------------------------- program constants ------------------------ *)

\* mask value of an ink pixel
INK == 0
\* mask value of a background pixel
BACKGROUND == 255
\* smooth_edges re-binarizes at this cut
MIDPOINT == 127

(* ------------------------------ helpers ------------------------------- *)

Max2(a, b) == IF a >= b THEN a ELSE b

Min2(a, b) == IF a <= b THEN a ELSE b

SetMax(S) == CHOOSE m \in S : \A s \in S : s <= m

SetMin(S) == CHOOSE m \in S : \A s \in S : m <= s

\* Python's a // b for a >= 0 and b # 0 (floor, also for a negative b)
FloorDiv(a, b) == IF b > 0 THEN a \div b ELSE -((a + (-b) - 1) \div (-b))

Shapes(area) == {s \in (1..area) \X (1..area) : s[1] * s[2] <= area}

NoImage == [w |-> 0, h |-> 0, px |-> << >>]

NewImage(w, h, v) == [w |-> w, h |-> h, px |-> [i \in 1..(w * h) |-> v]]

Area(img) == img.w * img.h

XOf(i, w) == (i - 1) % w

YOf(i, w) == (i - 1) \div w

IsMask(img) == \A i \in 1..Area(img) : img.px[i] \in {INK, BACKGROUND}

InkSet(img) == {i \in 1..Area(img) : img.px[i] = INK}

(* --------------------------- iconize pipeline ------------------------- *)

\* ImageOps.grayscale of an RGB pixel: Pillow's ITU-R 601-2 luma transform
Luma(c) == (c[1] * 19595 + c[2] * 38470 + c[3] * 7471 + 32768) \div 65536

to_grayscale(img) == [img EXCEPT !.px = [i \in 1..Area(img) |-> Luma(img.px[i])]]

binarize_unmapped(img, threshold) ==
    LET g == to_grayscale(img)
    IN  [g EXCEPT !.px = [i \in 1..Area(g) |-> IF g.px[i] > threshold THEN g.px[i] ELSE 0]]

\* g.point(lambda p: 255 if p > threshold else 0, mode="L")
binarize(img, threshold) ==
    LET g == to_grayscale(img)
    IN  [g EXCEPT !.px = [i \in 1..Area(g) |-> IF g.px[i] > threshold THEN 255 ELSE 0]]

\* The images mask.filter(ImageFilter.GaussianBlur(radius)) may return.  Every
\* blurred pixel is a weighted mean of pixels of the mask, so a constant mask
\* stays constant; otherwise a pixel may land on either side of the cut, for
\* which the two values next to it stand.
GaussianBlur(mask) ==
    LET vals == {mask.px[i] : i \in 1..Area(mask)}
        lo == SetMin(vals)
        hi == SetMax(vals)
    IN  IF lo = hi
        THEN {mask}
        ELSE {[mask EXCEPT !.px = p] :
                 p \in [1..Area(mask) -> {v \in {MIDPOINT, MIDPOINT + 1} : lo <= v /\ v <= hi}]}

\* blurred.point(lambda p: 255 if p > 127 else 0).convert("L")
Rethreshold(blurred) ==
    [blurred EXCEPT !.px = [i \in 1..Area(blurred) |->
        IF blurred.px[i] > MIDPOINT THEN 255 ELSE 0]]

\* every result smooth_edges(mask, radius) may return
smooth_edges(mask) == {Rethreshold(b) : b \in GaussianBlur(mask)}

\* np.pad(arr, 1, constant_values=0) read at (x, y), x and y from -1
Padded(img, x, y) ==
    IF x \in 0..(img.w - 1) /\ y \in 0..(img.h - 1)
    THEN img.px[y * img.w + x + 1]
    ELSE 0

\* one round of thicken's loop: np.maximum.reduce over the nine shifted views
MaxFilter3x3(img) ==
    [img EXCEPT !.px = [i \in 1..Area(img) |->
        SetMax({Padded(img, XOf(i, img.w) + dx, YOf(i, img.w) + dy) :
                   dx \in -1..1, dy \in -1..1})]]

RECURSIVE Rounds(_, _)
Rounds(img, k) == IF k = 0 THEN img ELSE Rounds(MaxFilter3x3(img), k - 1)

thicken(mask, iterations) == Rounds(mask, Max2(0, iterations))

\* ImageChops.subtract(a, b): clip(a - b, 0, 255)
ChopsSubtract(a, b) ==
    [a EXCEPT !.px = [i \in 1..Area(a) |-> Max2(0, Min2(255, a.px[i] - b.px[i]))]]

stroke_unguarded(mask, width) ==
    ChopsSubtract(thicken(mask, Max2(1, width \div 2)), mask)

stroke_from_mask(mask, width) ==
    IF width <= 0
    THEN NewImage(mask.w, mask.h, 0)
    ELSE ChopsSubtract(thicken(mask, Max2(1, width \div 2)), mask)

\* the string that stands for Python's None
NONE == "<None>"

\* str.strip and str.lower on the strings the requests carry
Strip(s) == IF s = " " THEN "" ELSE s

Lower(s) ==
    CASE s = "TRANSPARENT" -> "transparent"
      [] s = "True" -> "true"
      [] OTHER -> s

hex_or_none_nolower(s) ==
    IF s = "" THEN NONE
    ELSE IF Strip(s) = "" \/ Strip(s) = "transparent" THEN NONE ELSE Strip(s)

hex_or_none(s) ==
    IF s = "" THEN NONE
    ELSE IF Strip(s) = "" \/ Lower(Strip(s)) = "transparent" THEN NONE ELSE Strip(s)

\* ImageColor.getrgb on the colour strings the requests carry; any other string
\* raises ValueError
ColorTable ==
    [s \in {"#111111", "#ffffff", "#000000"} |->
        CASE s = "#111111" -> <<17, 17, 17>>
          [] s = "#ffffff" -> <<255, 255, 255>>
          [] OTHER -> <<0, 0, 0>>]

IsColor(s) == s \in DOMAIN ColorTable

\* Image.new("RGBA", (W, H), color) followed by putalpha(alpha)
Layer(rgb, alpha) ==
    [alpha EXCEPT !.px = [i \in 1..Area(alpha) |-> <<rgb[1], rgb[2], rgb[3], alpha.px[i]>>]]

AlphaFromMask_inverted(mask) ==
    [mask EXCEPT !.px = [i \in 1..Area(mask) |-> IF mask.px[i] > 0 THEN 255 ELSE 0]]

\* alpha = mask.point(lambda p: 0 if p > 0 else 255)
AlphaFromMask(mask) ==
    [mask EXCEPT !.px = [i \in 1..Area(mask) |-> IF mask.px[i] > 0 THEN 0 ELSE 255]]

\* s_alpha = s.point(lambda p: 255 if p > 0 else 0), s the stroke band
StrokeAlpha(mask, stroke_px) ==
    LET s == stroke_from_mask(mask, stroke_px)
    IN  [s EXCEPT !.px = [i \in 1..Area(s) |-> IF s.px[i] > 0 THEN 255 ELSE 0]]

\* Pillow's SHIFTFORDIV255
ShiftForDiv255(a) == ((a \div 256) + a) \div 256

\* one pixel of Image.alpha_composite(dst, src) (Pillow's AlphaComposite.c,
\* PRECISION_BITS = 6)
AlphaCompositePx(dst, src) ==
    IF src[4] = 0
    THEN dst
    ELSE LET blend == dst[4] * (255 - src[4])
             outa255 == src[4] * 255 + blend
             coef1 == (src[4] * 255 * 255 * 64) \div outa255
             coef2 == 255 * 64 - coef1
             ch(j) == ShiftForDiv255(src[j] * coef1 + dst[j] * coef2 + 128 * 64) \div 64
         IN  <<ch(1), ch(2), ch(3), ShiftForDiv255(outa255 + 128)>>

alpha_composite(dst, src) ==
    [dst EXCEPT !.px = [i \in 1..Area(dst) |-> AlphaCompositePx(dst.px[i], src.px[i])]]

BaseLayer_opaque(w, h, bg) ==
    IF bg # NONE
    THEN NewImage(w, h, <<ColorTable[bg][1], ColorTable[bg][2], ColorTable[bg][3], 255>>)
    ELSE NewImage(w, h, <<0, 0, 0, 255>>)

\* base = Image.new("RGBA", (W, H), (0, 0, 0, 0)); if bg: Image.new("RGBA", (W, H), bg)
BaseLayer(w, h, bg) ==
    IF bg # NONE
    THEN NewImage(w, h, <<ColorTable[bg][1], ColorTable[bg][2], ColorTable[bg][3], 255>>)
    ELSE NewImage(w, h, <<0, 0, 0, 0>>)

\* flat_iconize from its line 101 on, given the refined mask and colours that parse
Compose(mask, fg, bg, stroke_px) ==
    LET fg_layer == Layer(ColorTable[fg], AlphaFromMask(mask))
        base == BaseLayer(mask.w, mask.h, bg)
        stroked == IF stroke_px > 0
                   THEN alpha_composite(base, Layer(ColorTable["#000000"], StrokeAlpha(mask, stroke_px)))
                   ELSE base
    IN  alpha_composite(stroked, fg_layer)

(* --------------------------- pixelate pipeline ------------------------ *)

\* n = max(2, min(int(palette_size), flat.shape[0]))
ClampN(palette_size, N) == Max2(2, Min2(palette_size, N))

\* the index sequences choice(N, size=n, replace=False) can return; none when
\* n > N, where it raises ValueError
InjSeqs(N, n) == {q \in [1..n -> 1..N] : \A a, b \in 1..n : a # b => q[a] # q[b]}

SqDist_red(p, c) == (p[1] - c[1]) * (p[1] - c[1])

\* ((flat[i] - centers[k]) ** 2).sum()
SqDist(p, c) ==
    (p[1] - c[1]) * (p[1] - c[1]) + (p[2] - c[2]) * (p[2] - c[2])
        + (p[3] - c[3]) * (p[3] - c[3])

\* argmin: the first index of a smallest entry (1-based here, 0-based in numpy)
ArgMin(d) ==
    CHOOSE k \in DOMAIN d :
        /\ \A j \in DOMAIN d : d[k] <= d[j]
        /\ \A j \in DOMAIN d : j < k => d[j] > d[k]

\* labels = dist.argmin(axis=1), the centers being the seed pixels
Labels(flat, seeds) ==
    [i \in DOMAIN flat |->
        ArgMin([k \in DOMAIN seeds |-> SqDist(flat[i], flat[seeds[k]])])]

RECURSIVE SumChannel(_, _, _)
SumChannel(flat, S, j) ==
    IF S = {} THEN 0
    ELSE LET i == CHOOSE x \in S : TRUE
         IN  flat[i][j] + SumChannel(flat, S \ {i}, j)

\* The centers after the update loop.  A center is kept as the exact fraction
\* sum / cnt per channel: the mean of its points, or its seed pixel (cnt = 1)
\* when no point was assigned to it.
Centers(flat, seeds, labels) ==
    [k \in DOMAIN seeds |->
        LET pts == {i \in DOMAIN flat : labels[i] = k}
        IN  IF pts # {}
            THEN [sum |-> <<SumChannel(flat, pts, 1), SumChannel(flat, pts, 2),
                            SumChannel(flat, pts, 3)>>,
                  cnt |-> Cardinality(pts)]
            ELSE [sum |-> flat[seeds[k]], cnt |-> 1]]

\* mapped = centers[labels].reshape(h, w, 3).astype(np.uint8): truncation
Mapped(img, centers, labels) ==
    [img EXCEPT !.px = [i \in 1..Area(img) |->
        LET c == centers[labels[i]]
        IN  <<c.sum[1] \div c.cnt, c.sum[2] \div c.cnt, c.sum[3] \div c.cnt>>]]

\* Image.resize((dw, dh), Image.NEAREST): output (x, y) reads the source pixel
\* under its centre, floor((x + 0.5) * w / dw)
ResizeNearest(img, dw, dh) ==
    [w |-> dw, h |-> dh,
     px |-> [i \in 1..(dw * dh) |->
        LET sx == ((2 * XOf(i, dw) + 1) * img.w) \div (2 * dw)
            sy == ((2 * YOf(i, dw) + 1) * img.h) \div (2 * dh)
        IN  img.px[sy * img.w + sx + 1]]]

\* the "chunky pixels" step for a pixel_size other than 0
Chunky(pal_img, pixel_size) ==
    LET down_w == Max2(1, FloorDiv(pal_img.w, pixel_size))
        down_h == Max2(1, FloorDiv(pal_img.h, pixel_size))
    IN  ResizeNearest(ResizeNearest(pal_img, down_w, down_h), pal_img.w, pal_img.h)

(* ------------------------------ inputs -------------------------------- *)

\* colours of the uploaded sketches: black, light grey, white
IconColors == {<<0, 0, 0>>, <<200, 200, 200>>, <<255, 255, 255>>}

\* thresholds of the requests, two of them outside 0..255
Thresholds == {-1, 0, 200, 300}

FgInputs == {"#111111", "notacolor"}

BgInputs == {"", "TRANSPARENT", "#ffffff", "notacolor"}

StrokeInputs == {0, 1, 4}

ImagesOver(area, colors) ==
    UNION {{[w |-> s[1], h |-> s[2], px |-> p] : p \in [1..(s[1] * s[2]) -> colors]} :
              s \in Shapes(area)}

Masks == ImagesOver(MaxArea, {INK, BACKGROUND})

\* an upload: bytes Image.open decodes to img, or bytes it rejects
Malformed == [ok |-> FALSE, img |-> NoImage]

Uploads(area, colors) == {Malformed} \cup {[ok |-> TRUE, img |-> g] : g \in ImagesOver(area, colors)}

NoIconReq == [fg_color |-> "", bg_color |-> "", stroke_px |-> 0]

\* colours of the images to pixelate: black, red, white
PixColors == {<<0, 0, 0>>, <<255, 0, 0>>, <<255, 255, 255>>}

PaletteInputs == {1, 2, 8}

PixelSizeInputs == {-1, 0, 2}

DitherInputs == {"false", "True"}

NoPixReq == [file |-> Malformed, palette_size |-> 0]

NoChunk == [pixel_size |-> 0, dither |-> ""]

\* image is the PNG's picture; adaptive > 0 says it went through
\* convert("P", palette=Image.ADAPTIVE, colors=adaptive).convert("RGB") first
NoPixResp == [status |-> 0, image |-> NoImage, adaptive |-> 0]

NoQuant == [labels |-> << >>, centers |-> << >>]

NoResp == [status |-> 0, image |-> NoImage]

(* ------------------------------- state -------------------------------- *)

VARIABLES
    callFn,     \* the mask helper called on its own, "none" before the call
    callIn,     \* its image argument
    callArg,    \* its integer argument
    callOut,    \* what it returned
    iPc,        \* where the /iconize handler stands
    iReq,       \* the form fields of the /iconize request that are read after binarize
    iMask,      \* flat_iconize's mask
    iStages,    \* the pipeline stages that have run, in order
    iAlpha,     \* flat_iconize's alpha (ink selection)
    iStroke,    \* flat_iconize's s_alpha (stroke selection), NoImage without stroke
    iResp,      \* the /iconize response
    pPc,        \* where the /pixelate handler stands
    pReq,       \* the /pixelate request: the upload and palette_size
    pChunk,     \* the /pixelate request: pixel_size and dither, once they are read
    pN,         \* pixelate's n, 0 before it is computed
    pSeeds,     \* the indices rng.choice returned
    pQuant,     \* pixelate's labels and centers after the update loop
    pResp,      \* the /pixelate response
    pRun,       \* 1 for the request, 2 for its re-submission
    pFirst,     \* pQuant of the first run, kept during the re-submission
    rngMemo     \* the draws of default_rng(42).choice seen so far: <<N, n, draw>>

maskVars == <<callFn, callIn, callArg, callOut>>

iconVars == <<iPc, iReq, iMask, iStages, iAlpha, iStroke, iResp>>

pixVars == <<pPc, pReq, pChunk, pN, pSeeds, pQuant, pResp, pRun, pFirst, rngMemo>>

vars == <<maskVars, iconVars, pixVars>>

Init ==
    /\ callFn = "none"
    /\ callIn = NoImage
    /\ callArg = 0
    /\ callOut = NoImage
    /\ iPc = "idle"
    /\ iReq = NoIconReq
    /\ iMask = NoImage
    /\ iStages = << >>
    /\ iAlpha = NoImage
    /\ iStroke = NoImage
    /\ iResp = NoResp
    /\ pPc = "idle"
    /\ pReq = NoPixReq
    /\ pChunk = NoChunk
    /\ pN = 0
    /\ pSeeds = << >>
    /\ pQuant = NoQuant
    /\ pResp = NoPixResp
    /\ pRun = 1
    /\ pFirst = NoQuant
    /\ rngMemo = {}

(* ----------------------- the mask helpers on their own ----------------- *)

CallBinarize ==
    /\ callFn = "none"
    /\ \E img \in ImagesOver(MaxArea, IconColors), threshold \in Thresholds :
          /\ callFn' = "binarize"
          /\ callIn' = img
          /\ callArg' = threshold
          /\ callOut' = binarize(img, threshold)
    /\ UNCHANGED <<iconVars, pixVars>>

CallSmoothEdges ==
    /\ callFn = "none"
    /\ \E mask \in Masks :
          \E out \in smooth_edges(mask) :
              /\ callFn' = "smooth_edges"
              /\ callIn' = mask
              /\ callArg' = 0
              /\ callOut' = out
    /\ UNCHANGED <<iconVars, pixVars>>

CallThicken ==
    /\ callFn = "none"
    /\ \E mask \in Masks, iterations \in -1..MaxIter :
          /\ callFn' = "thicken"
          /\ callIn' = mask
          /\ callArg' = iterations
          /\ callOut' = thicken(mask, iterations)
    /\ UNCHANGED <<iconVars, pixVars>>

CallStrokeFromMask ==
    /\ callFn = "none"
    /\ \E mask \in Masks, width \in -1..MaxWidth :
          /\ callFn' = "stroke_from_mask"
          /\ callIn' = mask
          /\ callArg' = width
          /\ callOut' = stroke_from_mask(mask, width)
    /\ UNCHANGED <<iconVars, pixVars>>

NextMask == CallBinarize \/ CallSmoothEdges \/ CallThicken \/ CallStrokeFromMask

SpecMask == Init /\ [][NextMask]_vars

(* ---------------------------- POST /iconize --------------------------- *)

\* The request arrives, Image.open(BytesIO(data)) decodes the upload or raises,
\* and flat_iconize starts with binarize.  The upload and the threshold are read
\* by nothing after this step (img only for its size, which is the mask's).
IconizeOpen ==
    /\ iPc = "idle"
    /\ \E file \in Uploads(MaxArea, IconColors), fg \in FgInputs, bg \in BgInputs,
          threshold \in Thresholds, stroke_px \in StrokeInputs :
          /\ iReq' = [fg_color |-> fg, bg_color |-> bg, stroke_px |-> stroke_px]
          /\ IF file.ok
             THEN /\ iPc' = "binarized"
                  /\ iMask' = binarize(file.img, threshold)
                  /\ iStages' = Append(iStages, "binarize")
                  /\ iResp' = iResp
             ELSE /\ iPc' = "responded"
                  /\ iMask' = iMask
                  /\ iStages' = iStages
                  /\ iResp' = [status |-> 400, image |-> NoImage]
    /\ UNCHANGED <<iAlpha, iStroke, maskVars, pixVars>>

IconizeSmooth ==
    /\ iPc = "binarized"
    /\ \E out \in smooth_edges(iMask) : iMask' = out
    /\ iStages' = Append(iStages, "smooth_edges")
    /\ iPc' = "smoothed"
    /\ UNCHANGED <<iReq, iAlpha, iStroke, iResp, maskVars, pixVars>>

IconizeThicken ==
    /\ iPc = "smoothed"
    /\ iMask' = thicken(iMask, 1)
    /\ iStages' = Append(iStages, "thicken")
    /\ iPc' = "thickened"
    /\ UNCHANGED <<iReq, iAlpha, iStroke, iResp, maskVars, pixVars>>

\* the rest of flat_iconize and the handler's return: Image.new raises ValueError
\* on a colour string it cannot parse, and the handler answers 400
IconizeCompose ==
    /\ iPc = "thickened"
    /\ iPc' = "responded"
    /\ LET bg == hex_or_none(iReq.bg_color)
       IN  IF ~IsColor(iReq.fg_color)
           THEN /\ iAlpha' = AlphaFromMask(iMask)
                /\ iStroke' = iStroke
                /\ iResp' = [status |-> 400, image |-> NoImage]
           ELSE IF bg # NONE /\ ~IsColor(bg)
           THEN /\ iAlpha' = AlphaFromMask(iMask)
                /\ iStroke' = iStroke
                /\ iResp' = [status |-> 400, image |-> NoImage]
           ELSE /\ iAlpha' = AlphaFromMask(iMask)
                /\ iStroke' = IF iReq.stroke_px > 0
                              THEN StrokeAlpha(iMask, iReq.stroke_px)
                              ELSE NoImage
                /\ iResp' = [status |-> 200,
                             image |-> Compose(iMask, iReq.fg_color, bg, iReq.stroke_px)]
    /\ UNCHANGED <<iReq, iMask, iStages, maskVars, pixVars>>

NextIconize ==
    IconizeOpen \/ IconizeSmooth \/ IconizeThicken \/ IconizeCompose

SpecIconize == Init /\ [][NextIconize]_vars

(* ---------------------------- POST /pixelate -------------------------- *)

SeedDraws_unseeded(N, n) == InjSeqs(N, n)

\* rng = np.random.default_rng(42); rng.choice(N, size=n, replace=False): the
\* generator is built anew from the same seed in every call, so the draw for a
\* given (N, n) is the one seen before, if any
SeedDraws(N, n) ==
    IF \E e \in rngMemo : e[1] = N /\ e[2] = n
    THEN {e[3] : e \in {m \in rngMemo : m[1] = N /\ m[2] = n}}
    ELSE InjSeqs(N, n)

\* The request arrives and Image.open(BytesIO(data)) decodes the upload or raises.
\* pixel_size and dither are fields of the same request; nothing reads them
\* before the chunky-pixels step, where they are drawn.
PixelateOpen ==
    /\ pPc = "idle"
    /\ \E file \in Uploads(MaxPixels, PixColors), palette_size \in PaletteInputs :
          /\ pReq' = [file |-> file, palette_size |-> palette_size]
          /\ IF file.ok
             THEN pPc' = "opened" /\ pResp' = pResp
             ELSE pPc' = "responded" /\ pResp' = [status |-> 400, image |-> NoImage, adaptive |-> 0]
    /\ UNCHANGED <<pChunk, pN, pSeeds, pQuant, pRun, pFirst, rngMemo, maskVars, iconVars>>

\* pixelate up to pal_img: clamp n, draw the seeds, assign, update
PixelateQuantize ==
    /\ pPc = "opened"
    /\ LET flat == pReq.file.img.px
           N == Len(flat)
           n == ClampN(pReq.palette_size, N)
       IN  /\ pN' = n
           /\ IF SeedDraws(N, n) = {}
              THEN /\ pPc' = "responded"
                   /\ pResp' = [status |-> 400, image |-> NoImage, adaptive |-> 0]
                   /\ UNCHANGED <<pSeeds, pQuant, rngMemo>>
              ELSE \E draw \in SeedDraws(N, n) :
                   /\ pPc' = "quantized"
                   /\ pSeeds' = draw
                   /\ rngMemo' = rngMemo \cup {<<N, n, draw>>}
                   /\ pQuant' = [labels |-> Labels(flat, draw),
                                 centers |-> Centers(flat, draw, Labels(flat, draw))]
                   /\ pResp' = pResp
    /\ UNCHANGED <<pReq, pChunk, pRun, pFirst, maskVars, iconVars>>

\* the chunky pixels, the optional dither and the handler's return: a
\* pixel_size of 0 raises ZeroDivisionError and the handler answers 400
PixelateResample ==
    /\ pPc = "quantized"
    /\ pPc' = "responded"
    /\ \E pixel_size \in PixelSizeInputs, dither \in DitherInputs :
          /\ pChunk' = [pixel_size |-> pixel_size, dither |-> dither]
          /\ IF pixel_size = 0
             THEN pResp' = [status |-> 400, image |-> NoImage, adaptive |-> 0]
             ELSE pResp' = [status |-> 200,
                            image |-> Chunky(Mapped(pReq.file.img, pQuant.centers, pQuant.labels),
                                             pixel_size),
                            adaptive |-> IF Lower(dither) = "true" THEN pN ELSE 0]
    /\ UNCHANGED <<pReq, pN, pSeeds, pQuant, pRun, pFirst, rngMemo, maskVars, iconVars>>

\* the client sends the same image with the same palette_size once more
PixelateResubmit ==
    /\ pPc = "responded"
    /\ pRun = 1
    /\ pReq.file.ok
    /\ pRun' = 2
    /\ pFirst' = pQuant
    /\ pPc' = "opened"
    /\ pChunk' = NoChunk
    /\ pN' = 0
    /\ pSeeds' = << >>
    /\ pQuant' = NoQuant
    /\ pResp' = NoPixResp
    /\ UNCHANGED <<pReq, rngMemo, maskVars, iconVars>>

NextPixelate == PixelateOpen \/ PixelateQuantize \/ PixelateResample \/ PixelateResubmit

SpecPixelate == Init /\ [][NextPixelate]_vars

Next == NextMask \/ NextIconize \/ NextPixelate

Spec == Init /\ [][Next]_vars

(* ------------------------------- claims ------------------------------- *)

Mixed(img) == InkSet(img) # {} /\ InkSet(img) # 1..Area(img)

UsedLabels == {pQuant.labels[i] : i \in DOMAIN pQuant.labels}

DistinctColors(img) == Cardinality({img.px[i] : i \in 1..Area(img)})

SeedsDistinct ==
    \A a, b \in DOMAIN pSeeds :
        a # b => pReq.file.img.px[pSeeds[a]] # pReq.file.img.px[pSeeds[b]]

Transparent(bg_color) == bg_color \in {"", "TRANSPARENT"}

\* C1: dilation is monotonic in the ink set: for k >= 1 the ink pixels of
\* thicken(M, k) are a superset of the ink pixels of thicken(M, k-1).
C1_DilationGrowsInk ==
    (callFn = "thicken" /\ callArg >= 1)
        => InkSet(thicken(callIn, callArg - 1)) \subseteq InkSet(callOut)

\* C2: pixelate rejects every blockSize <= 0: the call ends in a client error
\* and returns no image.
C2_NonPositiveBlockRejected ==
    (pPc = "responded" /\ pChunk # NoChunk /\ pChunk.pixel_size <= 0)
        => (pResp.status = 400 /\ pResp.image = NoImage)

\* C3 as stated: for k >= 2 and an image with at least min(k, pixelCount)
\* distinct colours, the assignment uses at least min(k, pixelCount) palette
\* entries.
C3_AtLeastMinUsed ==
    (pQuant # NoQuant /\ pReq.palette_size >= 2
       /\ DistinctColors(pReq.file.img) >= Min2(pReq.palette_size, Area(pReq.file.img)))
        => Cardinality(UsedLabels) >= Min2(pReq.palette_size, Area(pReq.file.img))

\* C3 amended: for k >= 2, when the n seed pixels drawn have pairwise distinct
\* colours, the assignment uses all n = min(k, pixelCount) palette entries.
C3_DistinctSeedsAllUsed ==
    (pQuant # NoQuant /\ pReq.palette_size >= 2 /\ SeedsDistinct)
        => (UsedLabels = 1..pN /\ pN = Min2(pReq.palette_size, Area(pReq.file.img)))

C3_Witness ==
    /\ pQuant # NoQuant
    /\ pReq.palette_size >= 2
    /\ SeedsDistinct
    /\ pN < Area(pReq.file.img)
    /\ UsedLabels = 1..pN

\* C4 as stated: stroke_from_mask(M, width) with width <= 0 returns a mask of
\* M's size that is all background (255).
C4_AllBackground ==
    (callFn = "stroke_from_mask" /\ callArg <= 0)
        => /\ callOut.w = callIn.w /\ callOut.h = callIn.h
           /\ \A i \in 1..Area(callOut) : callOut.px[i] = BACKGROUND

\* C4 amended: stroke_from_mask(M, width) with width <= 0 returns an image of
\* M's size whose every pixel is 0: no pixel is selected for the stroke.
C4_AllZero ==
    (callFn = "stroke_from_mask" /\ callArg <= 0)
        => /\ callOut.w = callIn.w /\ callOut.h = callIn.h
           /\ \A i \in 1..Area(callOut) : callOut.px[i] = 0

C4_Witness ==
    /\ callFn = "stroke_from_mask"
    /\ callArg <= 0
    /\ Mixed(callIn)
    /\ callOut = NewImage(callIn.w, callIn.h, 0)

\* C5: an iconize request whose foreground colour is not a colour is answered
\* with a client error and no image, before any pipeline stage has run.
C5_FailFast ==
    (iPc = "responded" /\ ~IsColor(iReq.fg_color) /\ iReq # NoIconReq)
        => (iResp.status = 400 /\ iResp.image = NoImage /\ iStages = << >>)

\* C6: with no background colour, every output pixel outside the ink region
\* and outside the stroke band has alpha 0.
C6_TransparentOutside ==
    (iPc = "responded" /\ iResp.status = 200 /\ Transparent(iReq.bg_color))
        => \A i \in 1..Area(iMask) :
              (iMask.px[i] # INK /\ (iReq.stroke_px > 0 => iStroke.px[i] = 0))
                  => iResp.image.px[i][4] = 0

C6_Witness ==
    /\ iPc = "responded"
    /\ iResp.status = 200
    /\ Transparent(iReq.bg_color)
    /\ iReq.stroke_px > 0
    /\ \E i \in 1..Area(iMask) : iStroke.px[i] = 255
    /\ \E i \in 1..Area(iMask) :
          iMask.px[i] # INK /\ iStroke.px[i] = 0 /\ iResp.image.px[i][4] = 0

\* C7: the output of binarize (any threshold), smooth_edges, thicken (any
\* iteration count) and stroke_from_mask (any width) is an image of the input's
\* size with every pixel 0 or 255.
C7_MaskInvariant ==
    (callFn # "none")
        => (IsMask(callOut) /\ callOut.w = callIn.w /\ callOut.h = callIn.h)

C7_Witness ==
    /\ callFn = "binarize"
    /\ callArg = 0
    /\ \E i \in 1..Area(callIn) : Luma(callIn.px[i]) \notin {INK, BACKGROUND}
    /\ Mixed(callOut)

C9_ClampWithinPopulation ==
    (pN # 0 /\ Area(pReq.file.img) >= 1)
        => /\ 2 <= pN
           /\ pN <= Area(pReq.file.img)
           /\ InjSeqs(Area(pReq.file.img), pN) # {}

====
